---- MODULE Spec2Model ----
(***************************************************************************)
(* Store monitoring: uptime / downtime report engine.                      *)
(*                                                                         *)
(* Time is counted in whole seconds since an epoch whose day 0 is a        *)
(* Monday 00:00:00 UTC.  A duration that the program holds as float        *)
(* minutes is held here as the integer number of seconds (minutes * 60),   *)
(* so that the arithmetic stays exact.  A value of the output record       *)
(* (rounded to 2 decimals by the program) is held in hundredths of its     *)
(* unit.  A time-of-day text "HH:MM:SS" is held as the tuple of its        *)
(* numeric fields; a text with a missing field is a shorter tuple.         *)
(* A timezone is a fixed offset from UTC (the modelled week contains no    *)
(* daylight-saving transition).                                            *)
(***************************************************************************)
EXTENDS Integers, Sequences, FiniteSets, TLC

\* ------------------------------------------------------------ constants

inactive == 0
active == 1

HourSecs == 3600
DaySecs == 86400
WeekSecs == 604800

BATCH_SIZE == 250

\* bounds of the model
MaxObs == 3
MaxStores == 3

Max(a, b) == IF a >= b THEN a ELSE b
Min(a, b) == IF a <= b THEN a ELSE b

\* datetime.date() and datetime.weekday() of a UTC instant (0 = Monday)
date(t) == t \div DaySecs
weekday(t) == date(t) % 7

\* pytz_timezone(timezone_str): the zones known to the model and their
\* offsets from UTC in seconds; any other name raises UnknownTimeZoneError
KnownTimezones == {"UTC", "America/Chicago", "Asia/Kolkata"}
utcoffset(timezone_str) ==
    CASE timezone_str = "UTC" -> 0
      [] timezone_str = "America/Chicago" -> 0 - 6 * HourSecs
      [] timezone_str = "Asia/Kolkata" -> 5 * HourSecs + 1800
      [] OTHER -> 0

\* tz.localize(naive local datetime).astimezone(UTC)
localize_to_utc(local_t, timezone_str) == local_t - utcoffset(timezone_str)

\* datetime.strptime(text, "%H:%M:%S") succeeds
strptime_ok(text) ==
    /\ Len(text) = 3
    /\ text[1] \in 0..23
    /\ text[2] \in 0..59
    /\ text[3] \in 0..59

\* .time() of the parsed value, as seconds after local midnight
time_of_day(text) == text[1] * HourSecs + text[2] * 60 + text[3]

\* round(x, 2) of the non-negative rational n / d, in hundredths
round2(n, d) ==
    LET q == (n * 100) \div d
        r == (n * 100) % d
    IN  IF 2 * r < d THEN q
        ELSE IF 2 * r > d THEN q + 1
        ELSE IF q % 2 = 0 THEN q ELSE q + 1

\* ------------------------------------------------- get_batch_business_hours

BusinessHours(d, s, e) ==
    [dayOfWeek |-> d, start_time_local |-> s, end_time_local |-> e]

\* a store without rules is open all day every day
DefaultHours(hours) ==
    IF hours = <<>>
    THEN [d \in 1..7 |-> BusinessHours(d - 1, <<0, 0, 0>>, <<23, 59, 59>>)]
    ELSE hours

\* ------------------------------------------------------- interpolate_status

StoreStatus(ts, st) == [timestamp_utc |-> ts, status |-> st]

RECURSIVE PairIntervals(_, _, _, _)
PairIntervals(records, i, start, end) ==
    IF i > Len(records) - 1 THEN <<>>
    ELSE LET t1 == records[i].timestamp_utc
             s1 == records[i].status
             t2 == records[i + 1].timestamp_utc
             rest == PairIntervals(records, i + 1, start, end)
         IN  IF t2 < start \/ t1 > end
             THEN rest
             ELSE << <<Max(t1, start), Min(t2, end), s1>> >> \o rest

\* interpolate_status with the trailing interval emitted only when the last
\* observation lies inside the window
interpolate_status_tail_inside(records, start, end) ==
    IF records = <<>>
    THEN << <<start, end, inactive>> >>
    ELSE LET intervals == PairIntervals(records, 1, start, end)
             last_t == records[Len(records)].timestamp_utc
             last_s == records[Len(records)].status
         IN  IF start <= last_t /\ last_t < end
             THEN Append(intervals, <<Max(last_t, start), end, last_s>>)
             ELSE intervals

interpolate_status(records, start, end) ==
    IF records = <<>>
    THEN << <<start, end, inactive>> >>
    ELSE LET intervals == PairIntervals(records, 1, start, end)
             last_t == records[Len(records)].timestamp_utc
             last_s == records[Len(records)].status
         IN  IF last_t < end
             THEN Append(intervals, <<Max(last_t, start), end, last_s>>)
             ELSE intervals

\* ---------------------------------------------------------- overlap_minutes

\* overlap_minutes without the test for disjoint ranges
overlap_minutes_unguarded(start1, end1, start2, end2) ==
    Min(end1, end2) - Max(start1, start2)

overlap_minutes(start1, end1, start2, end2) ==
    LET latest_start == Max(start1, start2)
        earliest_end == Min(end1, end2)
    IN  IF latest_start >= earliest_end THEN 0
        ELSE earliest_end - latest_start

\* -------------------------------------------------------- process_one_store

window_start(label, now_utc) ==
    CASE label = "hour" -> now_utc - HourSecs
      [] label = "day" -> now_utc - DaySecs
      [] label = "week" -> now_utc - WeekSecs

\* the while loop of one rule: the business windows (bh_start, bh_end) it
\* builds, one for each position of day_cursor whose weekday is the rule's
RECURSIVE DayLoop(_, _, _, _)
DayLoop(bh, day_cursor, now_utc, timezone_str) ==
    IF ~(day_cursor < now_utc) THEN <<>>
    ELSE LET midnight == date(day_cursor) * DaySecs
             bh_start == localize_to_utc(
                 midnight + time_of_day(bh.start_time_local), timezone_str)
             bh_end == localize_to_utc(
                 midnight + time_of_day(bh.end_time_local), timezone_str)
             here == IF weekday(day_cursor) = bh.dayOfWeek
                     THEN << <<bh_start, bh_end>> >>
                     ELSE <<>>
         IN  here \o DayLoop(bh, day_cursor + DaySecs, now_utc, timezone_str)

\* the loop over the rules: every business window built for one label
RECURSIVE MaterializedWindows(_, _, _, _, _)
MaterializedWindows(business_hours, k, start_time, now_utc, timezone_str) ==
    IF k > Len(business_hours) THEN <<>>
    ELSE DayLoop(business_hours[k], start_time, now_utc, timezone_str)
         \o MaterializedWindows(business_hours, k + 1, start_time, now_utc,
                                timezone_str)

\* the innermost loop: the overlap of one business window with the status
\* intervals of status st
RECURSIVE WindowOverlap(_, _, _, _)
WindowOverlap(w, status_intervals, j, st) ==
    IF j > Len(status_intervals) THEN 0
    ELSE LET iv == status_intervals[j]
             minutes == overlap_minutes(iv[1], iv[2], w[1], w[2])
             mine == IF iv[3] = active THEN st = active ELSE st = inactive
         IN  (IF minutes > 0 /\ mine THEN minutes ELSE 0)
             + WindowOverlap(w, status_intervals, j + 1, st)

RECURSIVE Accumulate(_, _, _, _)
Accumulate(windows, k, status_intervals, st) ==
    IF k > Len(windows) THEN 0
    ELSE WindowOverlap(windows[k], status_intervals, 1, st)
         + Accumulate(windows, k + 1, status_intervals, st)

total_up(label, now_utc, timezone_str, business_hours, status_records) ==
    Accumulate(
        MaterializedWindows(business_hours, 1, window_start(label, now_utc),
                            now_utc, timezone_str),
        1,
        interpolate_status(status_records, window_start(label, now_utc), now_utc),
        active)

total_down(label, now_utc, timezone_str, business_hours, status_records) ==
    Accumulate(
        MaterializedWindows(business_hours, 1, window_start(label, now_utc),
                            now_utc, timezone_str),
        1,
        interpolate_status(status_records, window_start(label, now_utc), now_utc),
        inactive)

\* results[...] of one label: minutes for "hour", hours for "day" and "week"
store_result(label, total) ==
    IF label = "hour" THEN round2(total, 60) ELSE round2(total, 60 * 60)

NoRecord == [store_id |-> "",
             uptime_last_hour |-> 0, downtime_last_hour |-> 0,
             uptime_last_day |-> 0, downtime_last_day |-> 0,
             uptime_last_week |-> 0, downtime_last_week |-> 0]

\* the exception process_one_store raises on these inputs, "" when none
store_error(timezone_str, business_hours) ==
    IF timezone_str \notin KnownTimezones THEN "UnknownTimeZoneError"
    ELSE IF \E k \in 1..Len(business_hours) :
                \/ ~strptime_ok(business_hours[k].start_time_local)
                \/ ~strptime_ok(business_hours[k].end_time_local)
         THEN "ValueError"
         ELSE ""

process_one_store(store_id, now_utc, timezone_str, business_hours, status_records) ==
    LET err == store_error(timezone_str, business_hours)
        up(l) == store_result(l, total_up(l, now_utc, timezone_str,
                                          business_hours, status_records))
        down(l) == store_result(l, total_down(l, now_utc, timezone_str,
                                              business_hours, status_records))
    IN  IF err # "" THEN [error |-> err, value |-> NoRecord]
        ELSE [error |-> "",
              value |-> [store_id |-> store_id,
                         uptime_last_hour |-> up("hour"),
                         downtime_last_hour |-> down("hour"),
                         uptime_last_day |-> up("day"),
                         downtime_last_day |-> down("day"),
                         uptime_last_week |-> up("week"),
                         downtime_last_week |-> down("week")]]


\* ------------------------------------------------------------ the database

StoreIds == {"S1", "S2", "S3", "S4", "S5"}

Wed == 2 * DaySecs
Sun == 6 * DaySecs
Monday == 7 * DaySecs

\* a document of db.stores; timezone_str "" stands for a document without
\* that field
StoreDoc(s) ==
    [store_id |-> s,
     timezone_str |-> CASE s = "S1" -> "UTC"
                        [] s = "S2" -> ""
                        [] s = "S3" -> "Asia/Kolkata"
                        [] s = "S4" -> "Mars/Phobos"
                        [] s = "S5" -> "UTC"]

\* db.business_hours, by store, in insertion order
business_hours_docs(s) ==
    CASE s = "S1" -> << BusinessHours(0, <<9, 0, 0>>, <<17, 0, 0>>) >>
      [] s = "S2" -> <<>>
      [] s = "S3" -> << BusinessHours(2, <<9, 0, 0>>, <<17, 0, 0>>) >>
      [] s = "S4" -> <<>>
      [] s = "S5" -> << BusinessHours(0, <<9, 0, 0>>, <<17, 0, 0>>),
                        BusinessHours(1, <<25, 0, 0>>, <<17, 0, 0>>) >>

\* db.store_status once the poll data is loaded, by store, in insertion
\* order (not sorted)
LoadedStatus ==
    [s \in StoreIds |->
        CASE s = "S1" -> << StoreStatus(Monday + 12 * HourSecs, inactive),
                            StoreStatus(Monday + 8 * HourSecs, active),
                            StoreStatus(Monday + 16 * HourSecs, active) >>
          [] s = "S2" -> << StoreStatus(Monday + 18 * HourSecs, inactive),
                            StoreStatus(Sun + 20 * HourSecs, active) >>
          [] s = "S3" -> << StoreStatus(Wed + 10 * HourSecs, inactive),
                            StoreStatus(10 * HourSecs, inactive),
                            StoreStatus(Wed + 4 * HourSecs, active) >>
          [] OTHER -> <<>>]

EmptyStatus == [s \in StoreIds |-> <<>>]

\* .sort([("timestamp_utc", 1)]) of one store's documents
RECURSIVE Insert(_, _)
Insert(sorted, doc) ==
    IF sorted = <<>> THEN <<doc>>
    ELSE IF sorted[Len(sorted)].timestamp_utc <= doc.timestamp_utc
         THEN Append(sorted, doc)
         ELSE Append(Insert(SubSeq(sorted, 1, Len(sorted) - 1), doc),
                     sorted[Len(sorted)])

RECURSIVE SortByTimestamp(_)
SortByTimestamp(docs) ==
    IF docs = <<>> THEN <<>>
    ELSE Insert(SortByTimestamp(SubSeq(docs, 1, Len(docs) - 1)), docs[Len(docs)])

\* db.store_status.find_one(sort=[("timestamp_utc", -1)]): the latest
\* timestamp of the collection, -1 when the collection is empty
latest_timestamp(status) ==
    LET all == UNION {{status[s][n].timestamp_utc : n \in 1..Len(status[s])}
                      : s \in StoreIds}
    IN  IF all = {} THEN 0 - 1
        ELSE CHOOSE t \in all : \A u \in all : u <= t

\* ------------------------------------------------------- the batch fetches

Range(q) == {q[n] : n \in 1..Len(q)}

\* get_batch_timezones giving every store of the batch the timezone of the
\* first document the query returns
get_batch_timezones_first_doc(store_docs, store_ids) ==
    [s \in Range(store_ids) |->
        LET doc == CHOOSE d \in Range(store_docs) : d.store_id = store_ids[1]
        IN  IF doc.timezone_str # "" THEN doc.timezone_str ELSE "America/Chicago"]

get_batch_timezones(store_docs, store_ids) ==
    [s \in Range(store_ids) |->
        LET doc == CHOOSE d \in Range(store_docs) : d.store_id = s
        IN  IF doc.timezone_str # "" THEN doc.timezone_str ELSE "America/Chicago"]

get_batch_business_hours(store_ids) ==
    [s \in Range(store_ids) |-> DefaultHours(business_hours_docs(s))]

get_batch_status_records(status, store_ids, start, end) ==
    [s \in Range(store_ids) |->
        SortByTimestamp(SelectSeq(status[s],
            LAMBDA doc : doc.timestamp_utc >= start /\ doc.timestamp_utc <= end))]

\* ------------------------------------------------ process_stores_in_batches

\* math.ceil(len(all_stores) / batch_size)
num_batches(all_stores, batch_size) ==
    (Len(all_stores) + batch_size - 1) \div batch_size

\* all_stores[batch_num * batch_size : (batch_num + 1) * batch_size]
batch_slice(all_stores, batch_num, batch_size) ==
    SubSeq(all_stores, batch_num * batch_size + 1,
           Min((batch_num + 1) * batch_size, Len(all_stores)))

\* the call of process_one_store with a store that raises skipped over
store_outcome_skip_errors(r) ==
    LET store_id == r.batch[r.i]
        res == process_one_store(store_id, r.now_utc, r.tz_map[store_id],
                                 r.bh_map[store_id], r.status_map[store_id])
    IN  IF res.error = "" THEN res
        ELSE [error |-> "", value |-> [NoRecord EXCEPT !.store_id = store_id]]

\* the call of process_one_store for store i of the current batch
store_outcome(r) ==
    LET store_id == r.batch[r.i]
    IN  process_one_store(store_id, r.now_utc, r.tz_map[store_id],
                          r.bh_map[store_id], r.status_map[store_id])

\* ------------------------------------------------------------ the report

\* the $set of the except branch of generate_report
failed_report(report, err) ==
    [report EXCEPT !.status = "failed", !.error = err]

\* save_report_csv and the $set of the try branch
CsvPath == "reports/report_F1.csv"
complete_report(report, file_path) ==
    [report EXCEPT !.status = "complete", !.file_path = file_path]

\* base_url + "/reports/" + os.path.basename(file_path), base_url unset
report_url(file_path) ==
    IF file_path = CsvPath THEN "/reports/report_F1.csv" ELSE "/reports/"

NoResponse == [status_code |-> 0, status |-> "", error |-> "", report_url |-> ""]

\* the answer of GET /get_report/{report_id}
get_report(reports, report_id) ==
    IF report_id # "R1" \/ reports.status = "none"
    THEN [NoResponse EXCEPT !.status_code = 404, !.error = "Report not found"]
    ELSE IF reports.status = "running"
    THEN [NoResponse EXCEPT !.status_code = 200, !.status = "Running"]
    ELSE IF reports.status = "failed"
    THEN [NoResponse EXCEPT !.status_code = 500, !.status = "Failed",
                            !.error = reports.error]
    ELSE [NoResponse EXCEPT !.status_code = 200, !.status = "Complete",
                            !.report_url = report_url(reports.file_path)]

\* ================================================================ state

VARIABLES
    \* process_one_store: its arguments, its position and its locals
    now_utc, timezone_str, business_hours, status_records,
    label, status_intervals, bh_windows, totals, results,
    \* the database, the report document, the runs of
    \* process_stores_in_batches and the last answer of get_report
    stores, store_status, store_reports, run, csv_files, response

store_vars == <<now_utc, timezone_str, business_hours, status_records,
                label, status_intervals, bh_windows, totals, results>>
batch_vars == <<stores, store_status, store_reports, run, csv_files, response>>
vars == <<store_vars, batch_vars>>

LabelSet == {"hour", "day", "week"}

\* ------------------------------------------------ inputs of process_one_store

\* the reference instants tried: Monday 18:00, Monday 12:00, Monday 00:30
NowSet == {Monday + 18 * HourSecs, Monday + 12 * HourSecs, Monday + 1800}

\* how long before now_utc an observation may lie: the start of the week
\* window, 10 h, 6 h, 2 h, the start of the hour window, and now_utc itself
ObsOffsets == {WeekSecs, 10 * HourSecs, 6 * HourSecs, 2 * HourSecs, HourSecs, 0}

\* observation sequences as get_batch_status_records returns them: every
\* timestamp in [now - 7d, now], sorted by timestamp, at most MaxObs long
ObsSeqs(now) ==
    LET Obs == {StoreStatus(now - o, st) : o \in ObsOffsets, st \in {inactive, active}}
        Sorted(q) == \A i \in 1..(Len(q) - 1) :
                        q[i].timestamp_utc <= q[i + 1].timestamp_utc
    IN  UNION {{q \in [1..n -> Obs] : Sorted(q)} : n \in 0..MaxObs}

MonNineToFive == BusinessHours(0, <<9, 0, 0>>, <<17, 0, 0>>)

\* (timezone, rules in the database) of the stores tried
Profiles ==
    { <<"UTC", <<MonNineToFive>> >>,
      <<"UTC", <<>> >>,
      <<"America/Chicago", <<>> >>,
      <<"Asia/Kolkata", <<>> >>,
      <<"America/Chicago", <<MonNineToFive>> >>,
      <<"Asia/Kolkata",
        <<MonNineToFive, BusinessHours(0, <<13, 0, 0>>, <<20, 30, 0>>)>> >>,
      <<"UTC", <<BusinessHours(6, <<22, 0, 0>>, <<2, 0, 0>>)>> >>,
      <<"Mars/Phobos", <<>> >>,
      <<"UTC", <<MonNineToFive, BusinessHours(1, <<9, 0>>, <<17, 0, 0>>)>> >> }

NoRun == [pc |-> "idle", batch_size |-> 0, now_utc |-> 0, all_stores |-> <<>>,
          batch_num |-> 0, batch |-> <<>>, i |-> 0,
          tz_map |-> <<>>, bh_map |-> <<>>, status_map |-> <<>>,
          results |-> <<>>, error |-> ""]

NoReport == [status |-> "none", error |-> "", file_path |-> ""]

InitStore ==
    /\ now_utc \in NowSet
    /\ \E p \in Profiles :
          /\ timezone_str = p[1]
          /\ business_hours = DefaultHours(p[2])
    /\ status_records \in ObsSeqs(now_utc)
    /\ label = "call"
    /\ status_intervals = [l \in LabelSet |-> <<>>]
    /\ bh_windows = [l \in LabelSet |-> <<>>]
    /\ totals = [l \in LabelSet |-> [up |-> 0, down |-> 0]]
    /\ results = NoRecord
    /\ stores = <<>>
    /\ store_status = EmptyStatus
    /\ store_reports = NoReport
    /\ run = [r \in {"report", "direct"} |-> NoRun]
    /\ csv_files = {}
    /\ response = NoResponse

\* ------------------------------------------- process_one_store, step by step

\* tz = pytz_timezone(timezone_str), then the windows
Localize ==
    /\ label = "call"
    /\ label' = IF timezone_str \in KnownTimezones THEN "hour" ELSE "raised"
    /\ UNCHANGED <<now_utc, timezone_str, business_hours, status_records,
                   status_intervals, bh_windows, totals, results>>
    /\ UNCHANGED batch_vars

NextLabel(l) == CASE l = "hour" -> "day" [] l = "day" -> "week" [] l = "week" -> "return"

\* one iteration of "for label, start_time in windows.items()"
WindowIteration ==
    /\ label \in LabelSet
    /\ \/ /\ store_error(timezone_str, business_hours) # ""
          /\ label' = "raised"
          /\ UNCHANGED <<status_intervals, bh_windows, totals, results>>
       \/ /\ store_error(timezone_str, business_hours) = ""
          /\ LET start_time == window_start(label, now_utc)
                 up == total_up(label, now_utc, timezone_str, business_hours,
                                status_records)
                 down == total_down(label, now_utc, timezone_str, business_hours,
                                    status_records)
             IN  /\ status_intervals' = [status_intervals EXCEPT ![label] =
                        interpolate_status(status_records, start_time, now_utc)]
                 /\ bh_windows' = [bh_windows EXCEPT ![label] =
                        [k \in 1..Len(business_hours) |->
                            DayLoop(business_hours[k], start_time, now_utc,
                                    timezone_str)]]
                 /\ totals' = [totals EXCEPT ![label] = [up |-> up, down |-> down]]
                 /\ results' =
                        CASE label = "hour" ->
                               [results EXCEPT
                                  !.uptime_last_hour = store_result(label, up),
                                  !.downtime_last_hour = store_result(label, down)]
                          [] label = "day" ->
                               [results EXCEPT
                                  !.uptime_last_day = store_result(label, up),
                                  !.downtime_last_day = store_result(label, down)]
                          [] label = "week" ->
                               [results EXCEPT
                                  !.uptime_last_week = store_result(label, up),
                                  !.downtime_last_week = store_result(label, down)]
          /\ label' = NextLabel(label)
    /\ UNCHANGED <<now_utc, timezone_str, business_hours, status_records>>
    /\ UNCHANGED batch_vars

\* return {"store_id": store_id, **results}
Return ==
    /\ label = "return"
    /\ label' = "done"
    /\ results' = [results EXCEPT !.store_id = "S1"]
    /\ UNCHANGED <<now_utc, timezone_str, business_hours, status_records,
                   status_intervals, bh_windows, totals>>
    /\ UNCHANGED batch_vars

NextStore == Localize \/ WindowIteration \/ Return

SpecStore == InitStore /\ [][NextStore]_vars


\* ============================================== claims on process_one_store

Done(l) ==
    \/ label \in {"return", "done"}
    \/ l = "hour" /\ label \in {"day", "week"}
    \/ l = "day" /\ label = "week"

\* the intervals are ordered, do not overlap and their union is [s, e)
Covers(ivs, s, e) ==
    /\ Len(ivs) >= 1
    /\ ivs[1][1] = s
    /\ ivs[Len(ivs)][2] = e
    /\ \A j \in 1..Len(ivs) : ivs[j][1] <= ivs[j][2]
    /\ \A j \in 1..(Len(ivs) - 1) : ivs[j][2] = ivs[j + 1][1]

\* C1: for every ordered observation sequence and each window, the intervals
\* of interpolate_status are ordered, non-overlapping and cover the whole of
\* [window_start, window_end)
C1_Coverage ==
    \A l \in LabelSet :
        Done(l) => Covers(status_intervals[l], window_start(l, now_utc), now_utc)

\* the scenario of C2: timezone UTC, one rule Monday 09:00-17:00, observations
\* Monday 08:00 active, 12:00 inactive, 16:00 active, now = Monday 18:00
C2_Scenario ==
    /\ now_utc = Monday + 18 * HourSecs
    /\ timezone_str = "UTC"
    /\ business_hours = <<MonNineToFive>>
    /\ status_records = << StoreStatus(Monday + 8 * HourSecs, active),
                           StoreStatus(Monday + 12 * HourSecs, inactive),
                           StoreStatus(Monday + 16 * HourSecs, active) >>

\* C2: in the scenario the record is 0 / 0 minutes for the hour window and
\* 3.00 hours up, 4.00 hours down for the day window and for the week window
C2_EndToEnd ==
    (C2_Scenario /\ label = "done") =>
        results = [store_id |-> "S1",
                   uptime_last_hour |-> 0, downtime_last_hour |-> 0,
                   uptime_last_day |-> 300, downtime_last_day |-> 400,
                   uptime_last_week |-> 300, downtime_last_week |-> 400]

\* C3: a store without rules (open 00:00:00-23:59:59 every day) accumulates,
\* in each window, up + down equal to the length of the window, less at most
\* one second for each day boundary the window can touch
C3_AlwaysOpen ==
    \A l \in LabelSet :
        (Done(l) /\ business_hours = DefaultHours(<<>>)) =>
            LET length == now_utc - window_start(l, now_utc)
                gap == date(now_utc) - date(window_start(l, now_utc)) + 2
                sum == totals[l].up + totals[l].down
            IN  length - gap <= sum /\ sum <= length

RECURSIVE SeqSum(_, _)
SeqSum(q, k) == IF k > Len(q) THEN 0 ELSE q[k] + SeqSum(q, k + 1)

\* the windows materialized for label l, one after the other
Flat(l) ==
    MaterializedWindows(business_hours, 1, window_start(l, now_utc), now_utc,
                        timezone_str)

\* the part of a business window that lies in the trailing window of l
ClippedDuration(w, l) ==
    Max(0, Min(w[2], now_utc) - Max(w[1], window_start(l, now_utc)))

\* C4: overlap_minutes is never negative, and up + down of a window never
\* exceeds the summed durations of its business windows, clipped to it
C4_NonNegativeAndBounded ==
    \A l \in LabelSet :
        Done(l) =>
            LET fl == Flat(l)
                ivs == status_intervals[l]
            IN  /\ \A k \in 1..Len(fl) : \A j \in 1..Len(ivs) :
                      overlap_minutes(ivs[j][1], ivs[j][2], fl[k][1], fl[k][2]) >= 0
                /\ totals[l].up >= 0
                /\ totals[l].down >= 0
                /\ totals[l].up + totals[l].down
                     <= SeqSum([k \in 1..Len(fl) |-> ClippedDuration(fl[k], l)], 1)

\* C4 is exercised: a window with a rule whose business window is cut by the
\* window's edge, and with both up and down time accumulated
C4_Witness ==
    \E l \in LabelSet :
        /\ Done(l)
        /\ totals[l].up > 0
        /\ totals[l].down > 0
        /\ LET fl == Flat(l)
           IN  \E k \in 1..Len(fl) :
                  /\ ClippedDuration(fl[k], l) > 0
                  /\ ClippedDuration(fl[k], l) < fl[k][2] - fl[k][1]

\* C6: for each rule and each date d from the date of window_start to the
\* date of window_end, both included, whose weekday is the rule's, exactly
\* one business window is materialized on d
C6_EveryDateMaterialized ==
    \A l \in LabelSet :
        Done(l) =>
            \A k \in 1..Len(business_hours) :
                \A d \in date(window_start(l, now_utc))..date(now_utc) :
                    (d % 7 = business_hours[k].dayOfWeek) =>
                        Cardinality({n \in 1..Len(bh_windows[l][k]) :
                            bh_windows[l][k][n] =
                              << localize_to_utc(d * DaySecs
                                   + time_of_day(business_hours[k].start_time_local),
                                   timezone_str),
                                 localize_to_utc(d * DaySecs
                                   + time_of_day(business_hours[k].end_time_local),
                                   timezone_str) >>}) = 1

AllBefore(l) ==
    /\ status_records # <<>>
    /\ \A n \in 1..Len(status_records) :
          status_records[n].timestamp_utc < window_start(l, now_utc)

\* C8: when every observation lies before window_start, the window is covered
\* by the status of the last observation: (window_start, window_end, last
\* status) is an interval, and no interval of positive length has another status
C8_LastStatusPropagates ==
    \A l \in LabelSet :
        (Done(l) /\ AllBefore(l)) =>
            LET last_s == status_records[Len(status_records)].status
                ivs == status_intervals[l]
            IN  /\ \E j \in 1..Len(ivs) :
                      ivs[j] = <<window_start(l, now_utc), now_utc, last_s>>
                /\ \A j \in 1..Len(ivs) : ivs[j][1] < ivs[j][2] => ivs[j][3] = last_s

\* C8 is exercised: observations of both statuses, all before the window
C8_Witness ==
    \E l \in LabelSet :
        /\ Done(l)
        /\ AllBefore(l)
        /\ Len(status_records) >= 2
        /\ status_records[1].status # status_records[Len(status_records)].status

\* C9: the up time of the hour window is at most that of the day window,
\* which is at most that of the week window; the same for up + down
C9_WindowsNest ==
    label = "done" =>
        /\ totals["hour"].up <= totals["day"].up
        /\ totals["day"].up <= totals["week"].up
        /\ totals["hour"].up + totals["hour"].down
             <= totals["day"].up + totals["day"].down
        /\ totals["day"].up + totals["day"].down
             <= totals["week"].up + totals["week"].down


\* ===================================================== the report service

Runs == {"report", "direct"}

\* the populations of db.stores: at most MaxStores documents, no store twice
Populations ==
    UNION {{q \in [1..n -> StoreIds] : \A i, j \in 1..n : i # j => q[i] # q[j]}
           : n \in 0..MaxStores}

Init ==
    /\ \E q \in Populations : stores = [n \in 1..Len(q) |-> StoreDoc(q[n])]
    /\ store_status \in {LoadedStatus, EmptyStatus}
    /\ store_reports = NoReport
    /\ run = [r \in Runs |-> NoRun]
    /\ csv_files = {}
    /\ response = NoResponse
    /\ now_utc = 0
    /\ timezone_str = ""
    /\ business_hours = <<>>
    /\ status_records = <<>>
    /\ label = "idle"
    /\ status_intervals = [l \in LabelSet |-> <<>>]
    /\ bh_windows = [l \in LabelSet |-> <<>>]
    /\ totals = [l \in LabelSet |-> [up |-> 0, down |-> 0]]
    /\ results = NoRecord

\* an exception leaves run r and its locals are gone; generate_report's
\* except branch marks the report failed, a direct caller just sees the
\* exception
Raise(r, err) ==
    /\ run' = [run EXCEPT ![r] = [NoRun EXCEPT !.pc = "raised", !.error = err,
                                               !.now_utc = run[r].now_utc,
                                               !.batch_size = run[r].batch_size]]
    /\ store_reports' = IF r = "report" THEN failed_report(store_reports, err)
                        ELSE store_reports
    /\ UNCHANGED csv_files

\* process_stores_in_batches up to its loop: all_stores, window_start, results
enter_batches(r, now, batch_size) ==
    [r EXCEPT !.pc = "batch", !.now_utc = now, !.batch_size = batch_size,
              !.all_stores = [n \in 1..Len(stores) |-> stores[n].store_id],
              !.batch_num = 0, !.results = <<>>]

\* datetime.utcnow() when generate_report runs
WallClocks == {Monday + 12 * HourSecs, Monday + 18 * HourSecs}

\* the batch sizes a direct caller passes
BatchSizes == {1, 2}

\* POST /trigger_report
trigger_report ==
    /\ store_reports.status = "none"
    /\ store_reports' = [NoReport EXCEPT !.status = "running"]
    /\ run' = [run EXCEPT !["report"].pc = "queued"]
    /\ UNCHANGED <<stores, store_status, csv_files, response>>
    /\ UNCHANGED store_vars

\* generate_report: now_utc from the latest observation (the wall clock when
\* there is none), then the call of process_stores_in_batches(now_utc)
generate_report ==
    /\ run["report"].pc = "queued"
    /\ \/ \E clock \in WallClocks :
            LET latest == latest_timestamp(store_status)
                now == IF latest >= 0 THEN latest ELSE clock
            IN  /\ run' = [run EXCEPT !["report"] = enter_batches(@, now, BATCH_SIZE)]
                /\ UNCHANGED <<store_reports, csv_files>>
       \/ Raise("report", "DataSourceError")
    /\ UNCHANGED <<stores, store_status, response>>
    /\ UNCHANGED store_vars

\* process_stores_in_batches(now_utc, batch_size) called directly, with a
\* batch size that splits the population and the reference instant a report
\* run takes
direct_call ==
    /\ run["direct"].pc = "idle"
    /\ \/ \E batch_size \in BatchSizes :
            LET latest == latest_timestamp(store_status)
                now == IF latest >= 0 THEN latest ELSE Monday + 18 * HourSecs
            IN
            /\ run' = [run EXCEPT !["direct"] = enter_batches(@, now, batch_size)]
            /\ UNCHANGED <<store_reports, csv_files>>
       \/ Raise("direct", "DataSourceError")
    /\ UNCHANGED <<stores, store_status, response>>
    /\ UNCHANGED store_vars

\* the head of one pass of "for batch_num in range(num_batches)": the slice
\* and the three bulk fetches, any of which may fail
load_batch(r) ==
    /\ run[r].pc = "batch"
    /\ run[r].batch_num < num_batches(run[r].all_stores, run[r].batch_size)
    /\ \/ LET batch == batch_slice(run[r].all_stores, run[r].batch_num,
                                   run[r].batch_size)
          IN  /\ run' = [run EXCEPT ![r] = [@ EXCEPT
                    !.pc = "store", !.batch = batch, !.i = 1,
                    !.tz_map = get_batch_timezones(stores, batch),
                    !.bh_map = get_batch_business_hours(batch),
                    !.status_map = get_batch_status_records(store_status, batch,
                        run[r].now_utc - WeekSecs, run[r].now_utc)]]
              /\ UNCHANGED <<store_reports, csv_files>>
       \/ Raise(r, "DataSourceError")
    /\ UNCHANGED <<stores, store_status, response>>
    /\ UNCHANGED store_vars

\* one pass of "for i, store_id in enumerate(batch)"
process_store(r) ==
    /\ run[r].pc = "store"
    /\ LET res == store_outcome(run[r])
           last == run[r].i = Len(run[r].batch)
       IN  \/ /\ res.error = ""
              /\ run' = [run EXCEPT ![r] = [@ EXCEPT
                    !.results = Append(@, res.value),
                    !.i = IF last THEN 0 ELSE @ + 1,
                    !.pc = IF last THEN "batch" ELSE "store",
                    !.batch_num = IF last THEN @ + 1 ELSE @]]
              /\ UNCHANGED <<store_reports, csv_files>>
           \/ /\ res.error # ""
              /\ Raise(r, res.error)
    /\ UNCHANGED <<stores, store_status, response>>
    /\ UNCHANGED store_vars

\* after the loop: the two summary prints (the second divides by
\* len(results)), the return, and for the report the CSV file and the
\* update of the report document
finish(r) ==
    /\ run[r].pc = "batch"
    /\ run[r].batch_num >= num_batches(run[r].all_stores, run[r].batch_size)
    /\ \/ /\ Len(run[r].results) = 0
          /\ Raise(r, "ZeroDivisionError")
       \/ /\ Len(run[r].results) # 0
          /\ run' = [run EXCEPT ![r] = [NoRun EXCEPT !.pc = "returned",
                                               !.results = run[r].results,
                                               !.now_utc = run[r].now_utc,
                                               !.batch_size = run[r].batch_size]]
          /\ store_reports' = IF r = "report"
                              THEN complete_report(store_reports, CsvPath)
                              ELSE store_reports
          /\ csv_files' = IF r = "report"
                          THEN csv_files \cup {[path |-> CsvPath,
                                                rows |-> run[r].results]}
                          ELSE csv_files
    /\ UNCHANGED <<stores, store_status, response>>
    /\ UNCHANGED store_vars

\* GET /get_report/{report_id}
poll_report ==
    /\ response' = get_report(store_reports, "R1")
    /\ UNCHANGED <<stores, store_status, store_reports, run, csv_files>>
    /\ UNCHANGED store_vars

Next ==
    \/ trigger_report
    \/ generate_report
    \/ direct_call
    \/ \E r \in Runs : load_batch(r)
    \/ \E r \in Runs : process_store(r)
    \/ \E r \in Runs : finish(r)
    \/ poll_report

Spec == Init /\ [][Next]_vars


\* ============================================ claims on the report service

\* process_one_store raises for the store of this document of db.stores
Malformed(doc) ==
    store_error(IF doc.timezone_str # "" THEN doc.timezone_str
                ELSE "America/Chicago",
                DefaultHours(business_hours_docs(doc.store_id))) # ""

Ended(r) == run[r].pc \in {"returned", "raised"}

\* C5: two runs of process_stores_in_batches over the same data and now_utc,
\* with different batch sizes, return the same set of per-store records
C5_BatchInvariance ==
    (/\ run["report"].pc = "returned"
     /\ run["direct"].pc = "returned"
     /\ run["report"].now_utc = run["direct"].now_utc)
    => Range(run["report"].results) = Range(run["direct"].results)

\* C5 is exercised: several stores with loaded observations, split into more
\* than one batch by one run and kept in one batch by the other, and a
\* record that is not all zero
C5_Witness ==
    /\ run["report"].pc = "returned"
    /\ run["direct"].pc = "returned"
    /\ run["report"].now_utc = run["direct"].now_utc
    /\ store_status = LoadedStatus
    /\ Len(stores) >= 2
    /\ run["direct"].batch_size < Len(stores)
    /\ run["report"].batch_size >= Len(stores)
    /\ \E rec \in Range(run["direct"].results) : rec.uptime_last_week > 0

C10_PopulationComplete ==
    \A r \in Runs :
        (/\ Ended(r)
         /\ run[r].error # "DataSourceError"
         /\ \A n \in 1..Len(stores) : ~Malformed(stores[n]))
        => /\ run[r].pc = "returned"
           /\ Len(run[r].results) = Len(stores)
           /\ \A n \in 1..Len(stores) :
                 run[r].results[n].store_id = stores[n].store_id

====
